---------------------------- MODULE Spec2Model ----------------------------
(***************************************************************************)
(* A model of the two numerical kernels of span/utils/bin_data.pyx:        *)
(*                                                                         *)
(*   bin_data / _bin_data      sums the rows of a uint8 sample array that  *)
(*                             fall in each bin, through raw flat          *)
(*                             pointers (bounds checks disabled);          *)
(*   mult_mat_xcorr /          the block broadcast multiply, whose outer   *)
(*   _mult_mat_xcorr           loop is a prange run by several threads.    *)
(*                                                                         *)
(* Arrays are 0-based functions.  The buffers a kernel can reach are kept  *)
(* in one record per kernel (bmem, xmem), so that a store names the buffer *)
(* it goes to.  bin_data takes its two arrays as strided buffers (no mode   *)
(* is declared) and then walks a.data and bins.data with unit strides: the *)
(* model keeps the buffer, which the code reads, apart from the array the  *)
(* caller sees in it (view).  The accumulator of _bin_data is a C long;    *)
(* the sums of the model stay far below 2^63.                              *)
(***************************************************************************)
EXTENDS Integers, Sequences, FiniteSets, TLC

VARIABLES
    \* ---- bin_data
    bmem,       \* [a, bins, out]: the flat buffers behind a.data, bins.data, out.data
    ashape,     \* <<T, N>>: a.shape
    view,       \* [order, bstride, nbins]: how a and bins lie in their buffers
    oshape,     \* out.shape once allocated, <<>> before
    bpc,        \* position in bin_data / _bin_data
    bi, bj, bk, \* the C loop variables i, j, k
    areads,     \* history: flat indices used to read a_data
    owrites,    \* history: flat indices used to update out_data
    \* ---- mult_mat_xcorr
    xmem,       \* [X, Xc, c, alias, cplx]: the three memoryviews, row |-> (column
                \* |-> value), whether c is a view of the memory of Xc, and
                \* whether cflt is a complex type
    xn, xnx,    \* the arguments n and nx
    xpc,        \* position of the calling thread
    pending,    \* iterations of the prange not yet handed to a thread
    finished,   \* iterations of the prange that ran to their end
    wk,         \* thread |-> [pc, i, r, k, x, y, todo]: its private loop variables,
                \* the operands it has loaded, the parts still to load or store
    writers,    \* history: <<j, k>> |-> the outer iterations that stored to c[j, k]
    xcreads,    \* history: the rows of Xc that were read
    \* ---- three calls of bin_data, on a, on b and on a + b
    lin         \* [pc, N, a, b, bins, ra, rb, rsum]: the arguments and the results

binvars == <<bmem, ashape, view, oshape, bpc, bi, bj, bk, areads, owrites>>
xvars   == <<xmem, xn, xnx, xpc, pending, finished, wk, writers, xcreads>>
vars    == <<binvars, xvars, lin>>

(***************************************************************************)
(* Bounds of the model.                                                    *)
(***************************************************************************)
MaxT       == 4   \* rows of the sample array
MaxN       == 2   \* channels of the sample array
MaxCells   == 4   \* T * N of the sample array
MaxB       == 2   \* bins
OutsideRows == 1  \* rows of the sample array of a call with an edge outside [0, T]
LinCells   == 2   \* T * N of the two sample arrays of the linearity property
MaxBlocks  == 2   \* n of mult_mat_xcorr
MaxCols    == 2   \* nx of mult_mat_xcorr
NumThreads == 2   \* threads of the parallel region
XcorrCells == 8     \* cells of c in a call of mult_mat_xcorr
AliasCells == 8     \* cells of c in a call where c is Xc
ComplexAliasCells == 7  \* the same, the elements complex

\* The samples are logically boolean; a byte read outside the buffer is any byte.
SampleVals == {0, 1}
ByteVals   == 0 .. 255

\* The non-decreasing arrays of length len with values in lo..hi.
NonDecreasing(len, lo, hi) ==
    {s \in [0 .. len - 1 -> lo .. hi] : \A p \in 0 .. len - 2 : s[p] <= s[p + 1]}

(***************************************************************************)
(* bin_data                                                                *)
(***************************************************************************)
T_      == ashape[1]
N_      == ashape[2]
nbins   == view.nbins                       \* bins.shape[0]
n_      == oshape[2]                        \* out.shape[1]

\* np.zeros((rows, cols), dtype=np.long), as its flat buffer.
\* (ZerosNotCleared: the fault of a buffer that is allocated and not cleared.)
ZerosNotCleared(rows, cols) == [x \in 0 .. rows * cols - 1 |-> 1]
Zeros(rows, cols) == [x \in 0 .. rows * cols - 1 |-> 0]

\* The shape of the result: (bins.shape[0] - 1, a.shape[1]).
\* (OutShapeWithLastEdge: the fault of one row per edge instead of one per bin.)
OutShapeWithLastEdge(nb, N) == <<nb, N>>
OutShape(nb, N) == <<nb - 1, N>>

\* a_data[j * n + k]
\* (ReadIdxNoStride: the fault of a forgotten row stride; ReadIdxNextRow: the fault
\* of 1-based rows.)
ReadIdxNoStride(n, j, k) == j + k
ReadIdxNextRow(n, j, k) == (j + 1) * n + k
ReadIdx(n, j, k) == j * n + k

\* out_data[i * n + k]
WriteIdx(n, i, k) == i * n + k

\* for j in xrange(lo, hi): the loop test
InXrange(j, hi) == j < hi

\* out_data[i * n + k] += v, where v is the value read from a_data[j * n + k]
\* (AccumulateAndClear: the fault of consuming the samples; AccumulateCount: the
\* fault of counting the samples that are not zero instead of summing them.)
AccumulateAndClear(m, n, i, j, k, v) ==
    [m EXCEPT !.out[WriteIdx(n, i, k)] = @ + v, !.a = [x \in DOMAIN @ |-> 0]]
AccumulateCount(m, n, i, j, k, v) ==
    [m EXCEPT !.out[WriteIdx(n, i, k)] = @ + (IF v # 0 THEN 1 ELSE 0)]
Accumulate(m, n, i, j, k, v) ==
    [m EXCEPT !.out[WriteIdx(n, i, k)] = @ + v]

IdleBin ==
    /\ bmem = [a |-> <<>>, bins |-> <<>>, out |-> <<>>]
    /\ ashape = <<0, 0>>
    /\ view = [order |-> "C", bstride |-> 1, nbins |-> 0]
    /\ oshape = <<>>
    /\ bpc = "idle"
    /\ bi = 0 /\ bj = 0 /\ bk = 0
    /\ areads = {} /\ owrites = {}

\* The ranges the edges of a call are drawn from: [0, T] (the contract), and for
\* contiguous edges on a small array of one channel also one row before the
\* buffer or one row past it.
EdgeRanges(T, N, stride) ==
    {<<0, T>>} \cup (IF N <= 1 /\ T <= OutsideRows /\ stride = 1
                       THEN {<<0 - 1, T>>, <<0, T + 1>>} ELSE {})

\* The elements of the buffer behind a view of nb elements with the given stride.
BufferLen(nb, stride) == IF nb = 0 THEN 0 ELSE stride * (nb - 1) + 1

\* The arguments of one call.  a is a (T, N) uint8 array in C order or, as the
\* transpose of a C-ordered array is, in Fortran order; bins is an array of nb
\* sorted edges, contiguous or every second element of a sorted parent
\* (parent[::2]).  The buffer declarations of lines 14-16 and 40-41 accept them all.
InitBin ==
    \E T \in 0 .. MaxT, N \in 0 .. MaxN, nb \in 0 .. MaxB + 1,
       order \in {"C", "F"}, stride \in {1, 2} :
        /\ T * N <= MaxCells
        /\ order = "F" => (T >= 2 /\ N >= 2)
        /\ stride = 2 => nb >= 2
        /\ \E a \in [0 .. T * N - 1 -> SampleVals], rng \in EdgeRanges(T, N, stride) :
              \E e \in NonDecreasing(BufferLen(nb, stride), rng[1], rng[2]) :
                bmem = [a |-> a, bins |-> e, out |-> <<>>]
        /\ ashape = <<T, N>>
        /\ view = [order |-> order, bstride |-> stride, nbins |-> nb]
        /\ oshape = <<>>
        /\ bpc = "call"
        /\ bi = 0 /\ bj = 0 /\ bk = 0
        /\ areads = {} /\ owrites = {}

\* bin_data: out = np.zeros((bins.shape[0] - 1, a.shape[1])); _bin_data(a, bins, out)
BinDataCall ==
    /\ bpc = "call"
    /\ nbins >= 1
    /\ oshape' = OutShape(nbins, N_)
    /\ bmem' = [bmem EXCEPT !.out = Zeros(OutShape(nbins, N_)[1], OutShape(nbins, N_)[2])]
    /\ bk' = 0
    /\ bpc' = "k_loop"
    /\ UNCHANGED <<ashape, view, bi, bj, areads, owrites, xvars, lin>>

\* bin_data on an empty bins: np.zeros((-1, N)) raises ValueError.
BinDataRaise ==
    /\ bpc = "call"
    /\ nbins = 0
    /\ bpc' = "raised"
    /\ UNCHANGED <<bmem, ashape, view, oshape, bi, bj, bk, areads, owrites, xvars, lin>>

\* for k in xrange(n)
KLoop ==
    /\ bpc = "k_loop"
    /\ IF bk < n_
         THEN /\ bi' = 0
              /\ bpc' = "i_loop"
         ELSE /\ bpc' = "return"
              /\ UNCHANGED bi
    /\ UNCHANGED <<bmem, ashape, view, oshape, bj, bk, areads, owrites, xvars, lin>>

\* for i in xrange(nbins - 1), and on its exit the next k
ILoop ==
    /\ bpc = "i_loop"
    /\ IF bi < nbins - 1
         THEN /\ bj' = bmem.bins[bi]
              /\ bpc' = "j_loop"
              /\ UNCHANGED bk
         ELSE /\ bk' = bk + 1
              /\ bpc' = "k_loop"
              /\ UNCHANGED bj
    /\ UNCHANGED <<bmem, ashape, view, oshape, bi, areads, owrites, xvars, lin>>

\* The loop body with the read inside the sample buffer: the element j * n + k of
\* the buffer, whatever the strides of a are.
JLoopBody ==
    /\ bpc = "j_loop"
    /\ InXrange(bj, bmem.bins[bi + 1])
    /\ ReadIdx(n_, bj, bk) \in DOMAIN bmem.a
    /\ bmem' = Accumulate(bmem, n_, bi, bj, bk, bmem.a[ReadIdx(n_, bj, bk)])
    /\ areads' = areads \cup {ReadIdx(n_, bj, bk)}
    /\ owrites' = owrites \cup {WriteIdx(n_, bi, bk)}
    /\ bj' = bj + 1
    /\ UNCHANGED <<ashape, view, oshape, bpc, bi, bk, xvars, lin>>

\* The loop body with the read outside the sample buffer (boundscheck is off):
\* undefined behaviour, which yields the byte that lies there or ends the process.
JLoopBodyOutside ==
    /\ bpc = "j_loop"
    /\ InXrange(bj, bmem.bins[bi + 1])
    /\ ReadIdx(n_, bj, bk) \notin DOMAIN bmem.a
    /\ areads' = areads \cup {ReadIdx(n_, bj, bk)}
    /\ \/ /\ \E v \in ByteVals : bmem' = Accumulate(bmem, n_, bi, bj, bk, v)
          /\ owrites' = owrites \cup {WriteIdx(n_, bi, bk)}
          /\ bj' = bj + 1
          /\ UNCHANGED bpc
       \/ /\ bpc' = "fault"
          /\ UNCHANGED <<bmem, owrites, bj>>
    /\ UNCHANGED <<ashape, view, oshape, bi, bk, xvars, lin>>

\* The exit of the j loop, and the next i.
JLoopExit ==
    /\ bpc = "j_loop"
    /\ ~InXrange(bj, bmem.bins[bi + 1])
    /\ bi' = bi + 1
    /\ bpc' = "i_loop"
    /\ UNCHANGED <<bmem, ashape, view, oshape, bj, bk, areads, owrites, xvars, lin>>

\* return out
BinDataReturn ==
    /\ bpc = "return"
    /\ bpc' = "done"
    /\ UNCHANGED <<bmem, ashape, view, oshape, bi, bj, bk, areads, owrites, xvars, lin>>

\* bin_data as a function of its arguments: the loop nest of _bin_data run on
\* np.zeros((bins.shape[0] - 1, a.shape[1])), for a call within the contract.
RECURSIVE BinJ(_, _, _, _, _, _)
BinJ(m, n, i, k, j, hi) ==
    IF InXrange(j, hi)
      THEN BinJ(Accumulate(m, n, i, j, k, m.a[ReadIdx(n, j, k)]), n, i, k, j + 1, hi)
      ELSE m

RECURSIVE BinI(_, _, _, _, _)
BinI(m, n, nb, k, i) ==
    IF i < nb - 1
      THEN BinI(BinJ(m, n, i, k, m.bins[i], m.bins[i + 1]), n, nb, k, i + 1)
      ELSE m

RECURSIVE BinK(_, _, _, _)
BinK(m, n, nb, k) ==
    IF k < n THEN BinK(BinI(m, n, nb, k, 0), n, nb, k + 1) ELSE m

BinDataRun(a, bins, N) ==
    LET nb == Cardinality(DOMAIN bins)
    IN  BinK([a |-> a, bins |-> bins,
              out |-> Zeros(OutShape(nb, N)[1], OutShape(nb, N)[2])], N, nb, 0).out

(***************************************************************************)
(* mult_mat_xcorr                                                          *)
(***************************************************************************)
Threads == 1 .. NumThreads

\* for r, j in enumerate(xrange(i * n, (i + 1) * n)): the j that goes with r
\* (PairRowNoStride: the fault of a forgotten block stride.)
PairRowNoStride(i, r, n) == i + r
PairRow(i, r, n) == i * n + r

\* The row of Xc that the loop body reads in the step (r, j).
\* (XcRowFlat: the body with Xc[j, k] in the place of Xc[r, k].)
XcRowFlat(r, j) == j
XcRow(r, j) == r

\* An element of the fused type cflt is <<re, im>>, im = 0 for f4 and f8.  The
\* parts are small integers, on which the IEEE-754 operations are exact.
Mul(x, y) == <<x[1] * y[1] - x[2] * y[2], x[1] * y[2] + x[2] * y[1]>>
Add(x, y) == <<x[1] + y[1], x[2] + y[2]>>

\* The floats that make an element in memory: one for f4 and f8, the real and
\* the imaginary part for c8 and c16.  A load or a store of an element is a load
\* or a store of each of its floats; nothing in the nogil loop (no lock, no
\* atomic) makes the pair one access.
Parts(m) == IF m.cplx THEN {1, 2} ELSE {1}

\* The store of part p of v to c[j, k]: when c is a view of the memory of Xc it
\* is a store to Xc[j, k] as well.
StorePart(m, j, k, p, v) ==
    IF m.alias THEN [m EXCEPT !.c[j][k][p] = v[p], !.Xc[j][k][p] = v[p]]
               ELSE [m EXCEPT !.c[j][k][p] = v[p]]

\* The store c[j, k] = v with no step of another thread between its parts.
Store(m, j, k, v) == StorePart(StorePart(m, j, k, 1, v), j, k, 2, v)

\* The right-hand side X[i, k] * Xc[r, k] of the operands as loaded.
\* (ProductAsSum: the fault of a sum in the place of the product.)
ProductAsSum(x, y) == Add(x, y)
Product(x, y) == Mul(x, y)

\* c[j, k] = X[i, k] * Xc[r, k] as one thread on its own runs it: the loads, the
\* product and the store.
XcorrAssign(m, i, j, r, k) ==
    Store(m, j, k, Product(m.X[i][k], m.Xc[XcRow(r, j)][k]))

\* The run of the loop nest by one thread, i = 0, 1, ..., n - 1 in order.
RECURSIVE SeqK(_, _, _, _, _, _)
SeqK(m, n, nx, i, r, k) ==
    IF k < nx
      THEN SeqK(XcorrAssign(m, i, PairRow(i, r, n), r, k), n, nx, i, r, k + 1)
      ELSE m

RECURSIVE SeqR(_, _, _, _, _)
SeqR(m, n, nx, i, r) ==
    IF r < n THEN SeqR(SeqK(m, n, nx, i, r, 0), n, nx, i, r + 1) ELSE m

RECURSIVE SeqI(_, _, _, _)
SeqI(m, n, nx, i) ==
    IF i < n THEN SeqI(SeqR(m, n, nx, i, 0), n, nx, i + 1) ELSE m

SeqRun(m, n, nx) == SeqI(m, n, nx, 0)

\* The arguments of a call.  X has n rows, Xc and c have n * n rows, all have nx
\* columns, of a real type (im = 0) or a complex one (im = 1 in X, -1 in Xc).  The
\* real parts of X and of the first n rows of Xc count up from 2 and from 1, so
\* that no two rows are alike; the rows of Xc from n on go on counting, repeat
\* the first n rows, or are zero (the three tails for real elements and c apart;
\* the first otherwise).  c is what the caller allocated, filled with -1, or it
\* is Xc itself (line 113 takes any three memoryviews).
XArgs(n, nx, im) ==
    [i \in 0 .. n - 1 |-> [k \in 0 .. nx - 1 |-> <<2 + i * nx + k, im>>]]

XcArgs(n, nx, im, alias) ==
    {[j \in 0 .. n * n - 1 |-> [k \in 0 .. nx - 1 |->
          IF j < n \/ tail = "ramp" THEN <<1 + j * nx + k, 0 - im>>
          ELSE IF tail = "repeat" THEN <<1 + (j % n) * nx + k, 0 - im>>
          ELSE <<0, 0>>]] :
      tail \in IF im = 0 /\ ~alias THEN {"ramp", "repeat", "zero"} ELSE {"ramp"}}

CArg(n, nx) == [j \in 0 .. n * n - 1 |-> [k \in 0 .. nx - 1 |-> <<0 - 1, 0>>]]

Cells(n, nx) == (0 .. n * n - 1) \X (0 .. nx - 1)

NoValue == <<0, 0>>

IdleThread == [pc |-> "idle", i |-> 0, r |-> 0, k |-> 0,
               x |-> NoValue, y |-> NoValue, todo |-> {}]

InitXcorr ==
    \E n \in 0 .. MaxBlocks, nx \in 0 .. MaxCols :
        /\ xn = n /\ xnx = nx
        /\ n * n * nx <= XcorrCells
        /\ \E im \in {0, 1}, alias \in BOOLEAN :
             /\ alias => n * n * nx <= (IF im = 1 THEN ComplexAliasCells ELSE AliasCells)
             /\ \E Xc \in XcArgs(n, nx, im, alias) :
               xmem = [X |-> XArgs(n, nx, im), Xc |-> Xc,
                       c |-> IF alias THEN Xc ELSE CArg(n, nx),
                       alias |-> alias, cplx |-> (im = 1)]
        /\ xpc = "call"
        /\ pending = {} /\ finished = {}
        /\ wk = [w \in Threads |-> IdleThread]
        /\ writers = [cell \in Cells(n, nx) |-> {}]
        /\ xcreads = {}

\* mult_mat_xcorr calls _mult_mat_xcorr, which opens the parallel region: the
\* iterations 0 .. n - 1 of the prange wait for a thread.
XcorrCall ==
    /\ xpc = "call"
    /\ xpc' = "parallel"
    /\ pending' = 0 .. xn - 1
    /\ UNCHANGED <<xmem, xn, xnx, finished, wk, writers, xcreads, binvars, lin>>

\* for i in prange(n, schedule='guided'): a thread with nothing to do is handed
\* an iteration; i, r, j, k are private to the thread.
TakeIteration(w) ==
    /\ xpc = "parallel"
    /\ wk[w].pc = "idle"
    /\ \E i \in pending :
           /\ wk' = [wk EXCEPT ![w] = [IdleThread EXCEPT !.pc = "r_loop", !.i = i]]
           /\ pending' = pending \ {i}
    /\ UNCHANGED <<xmem, xn, xnx, xpc, finished, writers, xcreads, binvars, lin>>

\* for r, j in enumerate(...): the loop test, and on its exit the end of iteration i
RowLoop(w) ==
    /\ wk[w].pc = "r_loop"
    /\ IF wk[w].r < xn
         THEN /\ wk' = [wk EXCEPT ![w].pc = "k_loop", ![w].k = 0]
              /\ UNCHANGED finished
         ELSE /\ wk' = [wk EXCEPT ![w] = IdleThread]
              /\ finished' = finished \cup {wk[w].i}
    /\ UNCHANGED <<xmem, xn, xnx, xpc, pending, writers, xcreads, binvars, lin>>

\* for k in xrange(nx): c[j, k] = X[i, k] * Xc[r, k].  The statement is the
\* loads of the two operands, the product and the store, and the other threads
\* run between them.  First the load of X[i, k] (no call of the model stores to
\* X, so that its place among the loads and the order of its parts show nowhere).
ColumnLoadX(w) ==
    /\ wk[w].pc = "k_loop"
    /\ wk[w].k < xnx
    /\ wk' = [wk EXCEPT ![w].pc = "load", ![w].x = xmem.X[wk[w].i][wk[w].k],
                         ![w].y = NoValue, ![w].todo = Parts(xmem)]
    /\ UNCHANGED <<xmem, xn, xnx, xpc, pending, finished, writers, xcreads, binvars, lin>>

\* The load of Xc[r, k], a part at a time, in either order.
ColumnLoadXc(w) ==
    /\ wk[w].pc = "load"
    /\ LET row == XcRow(wk[w].r, PairRow(wk[w].i, wk[w].r, xn))
       IN  /\ \E p \in wk[w].todo :
                  wk' = [wk EXCEPT
                           ![w].y[p] = xmem.Xc[row][wk[w].k][p],
                           ![w].todo = IF @ = {p} THEN Parts(xmem) ELSE @ \ {p},
                           ![w].pc = IF wk[w].todo = {p} THEN "store" ELSE "load"]
           /\ xcreads' = xcreads \cup {row}
    /\ UNCHANGED <<xmem, xn, xnx, xpc, pending, finished, writers, binvars, lin>>

\* The store of the product to c[j, k], a part at a time, in either order; after
\* the last part the next k.
ColumnStore(w) ==
    /\ wk[w].pc = "store"
    /\ LET i == wk[w].i
           k == wk[w].k
           j == PairRow(i, wk[w].r, xn)
       IN  /\ \E p \in wk[w].todo :
                  /\ xmem' = StorePart(xmem, j, k, p, Product(wk[w].x, wk[w].y))
                  /\ wk' = IF wk[w].todo = {p}
                             THEN [wk EXCEPT ![w].pc = "k_loop", ![w].k = @ + 1,
                                             ![w].x = NoValue, ![w].y = NoValue,
                                             ![w].todo = {}]
                             ELSE [wk EXCEPT ![w].todo = @ \ {p}]
           /\ writers' = [writers EXCEPT ![<<j, k>>] = @ \cup {i}]
    /\ UNCHANGED <<xn, xnx, xpc, pending, finished, xcreads, binvars, lin>>

\* The exit of the k loop, and the next r.
ColumnExit(w) ==
    /\ wk[w].pc = "k_loop"
    /\ wk[w].k >= xnx
    /\ wk' = [wk EXCEPT ![w].pc = "r_loop", ![w].r = @ + 1]
    /\ UNCHANGED <<xmem, xn, xnx, xpc, pending, finished, writers, xcreads, binvars, lin>>

\* The end of the parallel region: every iteration was run, and the call returns.
XcorrReturn ==
    /\ xpc = "parallel"
    /\ pending = {}
    /\ \A w \in Threads : wk[w].pc = "idle"
    /\ xpc' = "done"
    /\ UNCHANGED <<xmem, xn, xnx, pending, finished, wk, writers, xcreads, binvars, lin>>

IdleXcorr ==
    /\ xmem = [X |-> <<>>, Xc |-> <<>>, c |-> <<>>, alias |-> FALSE, cplx |-> FALSE]
    /\ xn = 0 /\ xnx = 0
    /\ xpc = "idle"
    /\ pending = {} /\ finished = {}
    /\ wk = [w \in Threads |-> IdleThread]
    /\ writers = <<>>
    /\ xcreads = {}

IdleLin == lin = [pc |-> "idle"]

(***************************************************************************)
(* Three calls of bin_data on the same edges: on a, on b and on a + b.     *)
(***************************************************************************)
LinVals == {0, 1, 255}

\* a + b of two uint8 arrays, as the caller's numpy adds them: modulo 256.
AddU8(a, b) == [x \in DOMAIN a |-> (a[x] + b[x]) % 256]

InitLin ==
    \E T \in 0 .. MaxT, N \in 0 .. MaxN, nb \in 1 .. MaxB + 1 :
        /\ T * N <= LinCells
        /\ \E a \in [0 .. T * N - 1 -> LinVals], b \in [0 .. T * N - 1 -> LinVals],
              e \in NonDecreasing(nb, 0, T) :
                lin = [pc |-> "start", N |-> N, a |-> a, b |-> b, bins |-> e,
                       ra |-> <<>>, rb |-> <<>>, rsum |-> <<>>]

LinBinA ==
    /\ lin.pc = "start"
    /\ lin' = [lin EXCEPT !.pc = "a", !.ra = BinDataRun(lin.a, lin.bins, lin.N)]
    /\ UNCHANGED <<binvars, xvars>>

LinBinB ==
    /\ lin.pc = "a"
    /\ lin' = [lin EXCEPT !.pc = "b", !.rb = BinDataRun(lin.b, lin.bins, lin.N)]
    /\ UNCHANGED <<binvars, xvars>>

LinBinSum ==
    /\ lin.pc = "b"
    /\ lin' = [lin EXCEPT !.pc = "done",
                          !.rsum = BinDataRun(AddU8(lin.a, lin.b), lin.bins, lin.N)]
    /\ UNCHANGED <<binvars, xvars>>

InitLinCalls == IdleBin /\ IdleXcorr /\ InitLin

NextLin == LinBinA \/ LinBinB \/ LinBinSum

SpecLin == InitLinCalls /\ [][NextLin]_vars

InitBinCall == InitBin /\ IdleXcorr /\ IdleLin

NextBin ==
    \/ BinDataCall
    \/ BinDataRaise
    \/ KLoop
    \/ ILoop
    \/ JLoopBody
    \/ JLoopBodyOutside
    \/ JLoopExit
    \/ BinDataReturn

SpecBin == InitBinCall /\ [][NextBin]_vars

InitXcorrCall == IdleBin /\ InitXcorr /\ IdleLin

NextXcorr ==
    \/ XcorrCall
    \/ \E w \in Threads : TakeIteration(w)
    \/ \E w \in Threads : RowLoop(w)
    \/ \E w \in Threads : ColumnLoadX(w)
    \/ \E w \in Threads : ColumnLoadXc(w)
    \/ \E w \in Threads : ColumnStore(w)
    \/ \E w \in Threads : ColumnExit(w)
    \/ XcorrReturn

SpecXcorr == InitXcorrCall /\ [][NextXcorr]_vars

\* One call of either kernel.
Init == InitBinCall \/ InitXcorrCall

Next == NextBin \/ NextXcorr

Spec == Init /\ [][Next]_vars

\* The call runs to its end: no step of it waits on anything.
FairSpecBin == SpecBin /\ WF_vars(NextBin)


(***************************************************************************)
(* Properties of bin_data                                                  *)
(***************************************************************************)
B_ == nbins - 1

\* samples[j][k], the element the caller sees at (j, k) of the (T, N) array
Sample(j, k) == IF view.order = "C" THEN bmem.a[j * N_ + k] ELSE bmem.a[j + k * T_]

\* bin_edges[p], the element the caller sees at p of the edge array
Edge(p) == bmem.bins[p * view.bstride]

\* The contract of the edges: a contiguous array of at least one edge, every edge
\* in [0, T] (Init makes them sorted).
EdgesInContract ==
    /\ nbins >= 1
    /\ view.bstride = 1
    /\ \A p \in 0 .. nbins - 1 : Edge(p) \in 0 .. T_

\* The input contract: the edges as above, the samples row-major and contiguous.
InContract == EdgesInContract /\ view.order = "C"

\* The rows of bin i: bin_edges[i] <= j < bin_edges[i + 1].
RowsOf(i) == {j \in 0 .. T_ - 1 : Edge(i) <= j /\ j < Edge(i + 1)}

RECURSIVE ColumnSum(_, _)
ColumnSum(rows, k) ==
    IF rows = {} THEN 0
    ELSE LET j == CHOOSE x \in rows : TRUE
         IN  Sample(j, k) + ColumnSum(rows \ {j}, k)

\* C1: on a call within the contract, bin_data returns a (B, N) array whose cell
\* (i, k) is the sum of samples[j][k] over exactly the rows j with
\* bin_edges[i] <= j < bin_edges[i + 1]; the other rows count in no bin.
C1_BinSums ==
    (bpc = "done" /\ InContract) =>
        /\ oshape = <<B_, N_>>
        /\ DOMAIN bmem.out = 0 .. B_ * N_ - 1
        /\ \A i \in 0 .. B_ - 1, k \in 0 .. N_ - 1 :
               bmem.out[i * N_ + k] = ColumnSum(RowsOf(i), k)

\* The example of the specification: edges [0, 2, 4] on the 4x1 input [[1], [0], [1], [1]]
\* give [[1], [2]].
C1_Witness ==
    /\ bpc = "done"
    /\ ashape = <<4, 1>>
    /\ bmem.a = [x \in 0 .. 3 |-> IF x = 1 THEN 0 ELSE 1]
    /\ bmem.bins = [p \in 0 .. 2 |-> 2 * p]
    /\ bmem.out = [x \in 0 .. 1 |-> x + 1]

\* C7: a bin of zero width sums to 0 in every channel, whatever the samples are.
C7_ZeroWidthBin ==
    (bpc = "done" /\ view.bstride = 1) =>
        \A i \in 0 .. B_ - 1 :
            Edge(i) = Edge(i + 1) =>
                \A k \in 0 .. N_ - 1 : bmem.out[i * N_ + k] = 0

\* Edges [0, 0, 2] on samples that are all 1: the first bin is 0, the second is not.
C7_Witness ==
    /\ bpc = "done"
    /\ bmem.bins = [p \in 0 .. 2 |-> IF p = 2 THEN 2 ELSE 0]
    /\ ashape = <<2, 2>>
    /\ \A x \in DOMAIN bmem.a : bmem.a[x] = 1
    /\ bmem.out = [x \in 0 .. 3 |-> IF x < 2 THEN 0 ELSE 2]

\* C8: with B = 0 the call reads no sample, accumulates nothing, does not fault,
\* and returns an array of zero rows and N columns; with N = 0 it returns a (B, 0)
\* array. In both cases the call ends.
C8_Safe ==
    (B_ = 0 \/ (N_ = 0 /\ B_ >= 0)) =>
        /\ areads = {} /\ owrites = {}
        /\ bpc # "fault"
        /\ bpc = "done" => /\ oshape = <<B_, N_>>
                           /\ bmem.out = <<>>
\* C8, with the end of the call: the above at every step, and the call returns.
C8_EmptyResult == [](C8_Safe) /\ <>(bpc = "done" \/ ~(B_ = 0 \/ (N_ = 0 /\ B_ >= 0)))

\* A call with one edge (B = 0) on a non-empty two-channel sample array has returned.
C8_Witness ==
    /\ bpc = "done"
    /\ B_ = 0
    /\ N_ = 2 /\ T_ = 2
    /\ oshape = <<0, 2>>

\* A bin that is not empty and ends past the last row.
ReachesPast == /\ view.bstride = 1
               /\ \E i \in 0 .. B_ - 1 : Edge(i) < Edge(i + 1) /\ Edge(i + 1) > T_

\* C10: on a call within the contract every flat read index j * N + k lies in
\* [0, T * N) and every flat write index i * N + k in [0, B * N), at every step;
\* a call with a non-empty bin that ends at an edge greater than T (and N >= 1)
\* uses a read index >= T * N.
C10_IndicesInBounds ==
    /\ (bpc # "call" /\ EdgesInContract) =>
           /\ areads \subseteq 0 .. T_ * N_ - 1
           /\ owrites \subseteq 0 .. B_ * N_ - 1
    /\ (bpc \in {"done", "fault"} /\ N_ >= 1 /\ ReachesPast) =>
           \E x \in areads : x >= T_ * N_

\* A call within the contract has read every cell of a 2x2 sample array.
C10_Witness ==
    /\ bpc = "done"
    /\ InContract
    /\ ashape = <<2, 2>>
    /\ areads = 0 .. 3
    /\ owrites = 0 .. 3

\* A call outside the contract has read past the buffer and returned all the same.
C10_WitnessOutside ==
    /\ bpc = "done"
    /\ ~InContract
    /\ \E x \in areads : x >= T_ * N_

(***************************************************************************)
(* Properties of mult_mat_xcorr                                            *)
(***************************************************************************)
Blocks == 0 .. xn - 1
Cols   == 0 .. xnx - 1

\* The contract of the call: c is a buffer apart from the inputs.
Apart == ~xmem.alias

\* The memory at such a call: X and Xc as they are, c as the caller passed it.
AtCall == [xmem EXCEPT !.c = CArg(xn, xnx)]

Real(x) == <<x, 0>>

\* The example of the specification: n = 2, nx = 1, X = [[2], [3]],
\* Xc = [[1], [2], [3], [4]].
IsExample ==
    /\ xn = 2 /\ xnx = 1
    /\ Apart
    /\ xmem.X = [i \in 0 .. 1 |-> [k \in 0 .. 0 |-> Real(i + 2)]]
    /\ xmem.Xc = [j \in 0 .. 3 |-> [k \in 0 .. 0 |-> Real(j + 1)]]

\* C2, as the specification states it: after the call c[j][k] = X[i][k] * Xc[j][k]
\* with j = i * n + r, so that the example gives [[2], [4], [9], [12]].
C2_AsStated ==
    (xpc = "done" /\ Apart) =>
        /\ \A i \in Blocks, r \in Blocks, k \in Cols :
               xmem.c[i * xn + r][k] = Mul(xmem.X[i][k], xmem.Xc[i * xn + r][k])
        /\ IsExample =>
               xmem.c = [j \in 0 .. 3 |-> [k \in 0 .. 0 |->
                            IF j = 0 THEN Real(2) ELSE IF j = 1 THEN Real(4)
                            ELSE IF j = 2 THEN Real(9) ELSE Real(12)]]

\* C2, amended: after the call (c a buffer apart from X and Xc)
\* c[j][k] = X[i][k] * Xc[r][k] with j = i * n + r: block i of X multiplies the
\* rows 0 .. n - 1 of Xc, and the example gives [[2], [4], [3], [6]].
C2_BroadcastProduct ==
    (xpc = "done" /\ Apart) =>
        /\ \A i \in Blocks, r \in Blocks, k \in Cols :
               xmem.c[i * xn + r][k] = Mul(xmem.X[i][k], xmem.Xc[r][k])
        /\ IsExample =>
               xmem.c = [j \in 0 .. 3 |-> [k \in 0 .. 0 |->
                            IF j = 0 THEN Real(2) ELSE IF j = 1 THEN Real(4)
                            ELSE IF j = 2 THEN Real(3) ELSE Real(6)]]

\* The call on the example has returned.
C2_Witness ==
    /\ xpc = "done"
    /\ IsExample
    /\ finished = {0, 1}

\* C3: whatever threads ran the iterations of the outer loop, and however their
\* steps interleaved, the call (c a buffer apart from X and Xc) ends with c as the
\* run by one thread, i = 0, 1, ..., n - 1 in order, leaves it.
C3_SameAsSequential ==
    (xpc = "done" /\ Apart) => xmem.c = SeqRun(AtCall, xn, xnx).c

\* Two threads shared the iterations of a call with n = 2, nx = 2, which returned.
C3_Witness ==
    /\ xpc = "done"
    /\ Apart
    /\ xn = 2 /\ xnx = 2
    /\ finished = {0, 1}
    /\ \A cell \in Cells(xn, xnx) : writers[cell] # {}
    /\ xmem.c[0] # xmem.c[2]

\* C4: outer iteration i stores only to the rows [i * n, (i + 1) * n) of c, and
\* no cell of c is stored to by two outer iterations.
C4_DisjointWrites ==
    xpc # "idle" =>
        \A cell \in Cells(xn, xnx) :
            /\ Cardinality(writers[cell]) <= 1
            /\ \A i \in writers[cell] :
                   i * xn <= cell[1] /\ cell[1] < (i + 1) * xn

\* Two threads are in the middle of two iterations, each having stored to c.
C4_Witness ==
    /\ xpc = "parallel"
    /\ xn = 2 /\ xnx = 2
    /\ wk[1].pc = "k_loop" /\ wk[2].pc = "k_loop"
    /\ wk[1].i # wk[2].i
    /\ \E x, y \in Cells(xn, xnx) : writers[x] = {0} /\ writers[y] = {1}

\* C5: no step of either kernel changes an input: a and bins of bin_data, X and
\* Xc of mult_mat_xcorr (c a buffer apart from them).
C5_InputsUnchanged ==
    [][/\ bmem'.a = bmem.a
       /\ bmem'.bins = bmem.bins
       /\ xmem'.X = xmem.X
       /\ Apart => xmem'.Xc = xmem.Xc]_vars

\* Two threads have stored to c, which differs from what the caller passed.
C5_Witness ==
    /\ xpc = "parallel"
    /\ xn = 2 /\ xnx = 2
    /\ wk[1].pc = "k_loop" /\ wk[2].pc = "k_loop"
    /\ Apart
    /\ xmem.c[0][0] # CArg(xn, xnx)[0][0]
    /\ xmem.c[2][0] # CArg(xn, xnx)[2][0]

\* bin_data has accumulated samples that are not zero and returned.
C5_WitnessBin ==
    /\ bpc = "done"
    /\ \E x \in DOMAIN bmem.out : bmem.out[x] > 0

\* Xc with its rows from n on replaced by zeros.
ZeroTail(Xc, n) ==
    [j \in DOMAIN Xc |-> IF j < n THEN Xc[j] ELSE [k \in DOMAIN Xc[j] |-> <<0, 0>>]]

\* C9: the loop body reads row r of Xc, not row j: only the rows 0 .. n - 1 of Xc
\* are read, and (c a buffer apart from X and Xc) c[i * n + r][k] ends as
\* X[i][k] * Xc[r][k], the same c as when the rows of Xc from n on are replaced.
C9_OnlyFirstRowsRead ==
    /\ xcreads \subseteq 0 .. xn - 1
    /\ (xpc = "done" /\ Apart) =>
           /\ \A i \in Blocks, r \in Blocks, k \in Cols :
                  xmem.c[i * xn + r][k] = Mul(xmem.X[i][k], xmem.Xc[r][k])
           /\ xmem.c = SeqRun([AtCall EXCEPT !.Xc = ZeroTail(@, xn)], xn, xnx).c

\* A call has returned whose Xc differs in every row from n on from the rows read.
C9_Witness ==
    /\ xpc = "done"
    /\ Apart
    /\ xn = 2 /\ xnx = 2
    /\ xcreads = {0, 1}
    /\ xmem.Xc[2] # xmem.Xc[0] /\ xmem.Xc[3] # xmem.Xc[1]
    /\ xmem.Xc[2] # ZeroTail(xmem.Xc, xn)[2]

\* The two runs of the example with c = Xc: iteration 1 reads the rows 0 and 1 of
\* Xc before or after iteration 0 has stored to them.
AliasedExample ==
    /\ xpc = "done" /\ xmem.alias
    /\ xn = 2 /\ xnx = 1
    /\ xmem.X = [i \in 0 .. 1 |-> [k \in 0 .. 0 |-> Real(i + 2)]]
AliasedAfter ==
    /\ AliasedExample
    /\ xmem.c = [j \in 0 .. 3 |-> [k \in 0 .. 0 |->
                    IF j = 0 THEN Real(2) ELSE IF j = 1 THEN Real(4)
                    ELSE IF j = 2 THEN Real(6) ELSE Real(12)]]
    /\ xmem.Xc = xmem.c
AliasedBefore ==
    /\ AliasedExample
    /\ xmem.c = [j \in 0 .. 3 |-> [k \in 0 .. 0 |->
                    IF j = 0 THEN Real(2) ELSE IF j = 1 THEN Real(4)
                    ELSE IF j = 2 THEN Real(3) ELSE Real(6)]]
    /\ xmem.Xc = xmem.c

(***************************************************************************)
(* Properties that relate calls of bin_data                                *)
(***************************************************************************)
\* a + b still fits the unsigned 8-bit sample type.
Fits(a, b) == \A x \in DOMAIN a : a[x] + b[x] <= 255

\* C6: binning is linear in the samples: when a + b fits the sample type,
\* bin_data(a + b, edges) = bin_data(a, edges) + bin_data(b, edges), cell by cell.
C6_Linear ==
    (lin.pc = "done" /\ Fits(lin.a, lin.b)) =>
        /\ DOMAIN lin.rsum = DOMAIN lin.ra
        /\ DOMAIN lin.rsum = DOMAIN lin.rb
        /\ \A x \in DOMAIN lin.rsum : lin.rsum[x] = lin.ra[x] + lin.rb[x]

\* The three calls were made on arrays a and b that overlap (both 1 in some cell
\* that a bin covers), so that a cell of the result of a + b counts both.
C6_Witness ==
    /\ lin.pc = "done"
    /\ Fits(lin.a, lin.b)
    /\ \E x \in DOMAIN lin.a : lin.a[x] = 1 /\ lin.b[x] = 1
    /\ \E x \in DOMAIN lin.rsum : lin.rsum[x] >= 2 /\ lin.ra[x] >= 1 /\ lin.rb[x] >= 1

\* The premise of C6 is needed: without it the sum wraps and linearity is lost.
C6_WithoutFits ==
    lin.pc = "done" =>
        \A x \in DOMAIN lin.rsum : lin.rsum[x] = lin.ra[x] + lin.rb[x]

\* The steps of bin_data and the function BinDataRun agree on a call within the
\* contract.
StepsAgreeWithRun ==
    (bpc = "done" /\ InContract) => bmem.out = BinDataRun(bmem.a, bmem.bins, N_)

=============================================================================
